---- MODULE Spec2Model ----
(***************************************************************************)
(* Model of src-tauri/resources/joycaption_inference.py: the command-line  *)
(* script that captions one image with the JoyCaption model.               *)
(*                                                                         *)
(* The script is one synchronous run of main().  The state of a run is the *)
(* record `run`: the position in main() (pc), main()'s local variables,    *)
(* what was written to the two output streams, the exit status, and the    *)
(* log of the library calls made so far.  Every call into an external      *)
(* library (argparse excepted, which is modelled by what it does) either   *)
(* returns or raises; which of the two, and what it returns, is drawn from *)
(* a small set by the action that makes the call.                          *)
(*                                                                         *)
(* `twin` is a second run of the same script, used to compare two runs     *)
(* that differ only in the --low-vram flag: it takes the same steps with   *)
(* the same library answers.                                               *)
(***************************************************************************)
EXTENDS Integers, Sequences, FiniteSets, TLC

VARIABLES run, twin

vars == <<run, twin>>

-----------------------------------------------------------------------------
(* Bounds of the model *)

\* longest command line explored (number of words after the script name)
MaxArgs == 4
\* most tokens the tokenizer makes of the prompt
MaxPromptTokens == 2
\* most tokens generate() appends (the code allows max_new_tokens = 512)
MaxNewTokens == 2

-----------------------------------------------------------------------------
(* Module-level constants of the script *)

\* MODE_PROMPTS, the static mapping from mode name to prompt text.
\* (The source's em dashes and ellipsis are written "--" and "..." here.)
MODE_PROMPTS ==
  [ descriptive |-> "Write a long detailed description for this image.",
    straightforward |-> "Write a straightforward caption for this image. Begin with the main subject and medium. Mention pivotal elements--people, objects, scenery--using confident, definite language. Focus on concrete details like color, shape, texture, and spatial relationships. Show how elements interact. Omit mood and speculative wording. If text is present, quote it exactly. Note any watermarks, signatures, or compression artifacts. Never mention what's absent, resolution, or unobservable details. Vary your sentence structure and keep the description concise, without starting with \"This image is...\" or similar phrasing.",
    booru |-> "Generate only comma-separated Danbooru tags (lowercase_underscores). Strict order: artist:, copyright:, character:, meta:, then general tags. Include counts (1girl), appearance, clothing, accessories, pose, expression, actions, background. Use precise Danbooru syntax. No extra text.",
    training |-> "Create a training caption for this image. Start with the main subject, then describe pose, expression, clothing, background, and art style. Use comma-separated tags. Be specific about visual details." ]

DEFAULT_PROMPT == MODE_PROMPTS["descriptive"]

\* dict.get(key, default)
DictGet(d, k, default) == IF k \in DOMAIN d THEN d[k] ELSE default

-----------------------------------------------------------------------------
(* The command line and argparse *)

\* the option strings of the parser: the three add_argument calls and the
\* --help option every ArgumentParser() adds by default
OptionStrings == {"--image", "--mode", "--low-vram", "--help"}

\* the words a command line is made of in this model: the options, the four
\* mode names and one word that is no mode name (a file name)
Words == OptionStrings \cup DOMAIN MODE_PROMPTS \cup {"a.png"}

Argvs == UNION { [1..n -> Words] : n \in 0..MaxArgs }

\* the namespace before any argument is read: the defaults of add_argument
\* (image is required and has none: <<>>)
DefaultNamespace ==
  [image |-> <<>>, mode |-> "descriptive", low_vram |-> FALSE]

\* (mutant of check_value: --mode declared without choices)
check_value_any(choices, value) == TRUE

\* choices=list(MODE_PROMPTS.keys()): the parser's check of a value
check_value(choices, value) == value \in choices

\* parser.parse_args(): argparse reads the words left to right.  An option
\* acts when it is met: --help prints the help and exits 0 at once; --image
\* and --mode take the next word, which must not be an option string, and
\* --mode's must be one of the choices, else the parser exits 2; a word that
\* belongs to no option is kept as unrecognized.  At the end a missing
\* --image or an unrecognized word makes the parser exit 2.
\* The result is [status, ns]: "ok" with the namespace, "help" or "error".
RECURSIVE consume_optional(_, _, _, _)
consume_optional(argv, i, ns, extras) ==
  IF i > Len(argv)
  THEN IF ns.image = <<>> \/ extras
       THEN [status |-> "error", ns |-> ns]
       ELSE [status |-> "ok", ns |-> ns]
  ELSE LET w == argv[i]
           hasValue == i + 1 <= Len(argv) /\ argv[i + 1] \notin OptionStrings
       IN CASE w = "--help" -> [status |-> "help", ns |-> ns]
            [] w = "--low-vram" ->
                 consume_optional(argv, i + 1, [ns EXCEPT !.low_vram = TRUE], extras)
            [] w = "--image" ->
                 IF hasValue
                 THEN consume_optional(argv, i + 2,
                                       [ns EXCEPT !.image = <<argv[i + 1]>>], extras)
                 ELSE [status |-> "error", ns |-> ns]
            [] w = "--mode" ->
                 IF hasValue /\ check_value(DOMAIN MODE_PROMPTS, argv[i + 1])
                 THEN consume_optional(argv, i + 2,
                                       [ns EXCEPT !.mode = argv[i + 1]], extras)
                 ELSE [status |-> "error", ns |-> ns]
            [] OTHER -> consume_optional(argv, i + 1, ns, TRUE)

parse_args(argv) == consume_optional(argv, 1, DefaultNamespace, FALSE)

-----------------------------------------------------------------------------
(* Text, as the script handles it *)

\* The model id of line 53, "John6666/llama-joycaption-beta-one-hf-llava-nf4",
\* as the sequence of its characters, so that `"nf4" in model_id` is the
\* substring test it is in the source.
MODEL_ID ==
  << "J", "o", "h", "n", "6", "6", "6", "6", "/", "l", "l", "a", "m", "a",
     "-", "j", "o", "y", "c", "a", "p", "t", "i", "o", "n", "-", "b", "e",
     "t", "a", "-", "o", "n", "e", "-", "h", "f", "-", "l", "l", "a", "v",
     "a", "-", "n", "f", "4" >>

\* Python's `sub in s` on strings
Contains(sub, s) ==
  \E i \in 1..(Len(s) - Len(sub) + 1) : SubSeq(s, i, i + Len(sub) - 1) = sub

\* The tokens of the model's vocabulary that the runs of this model meet: a
\* letter, a blank, the end-of-sequence token (special) and a token of the
\* prompt.  Decoded text is the sequence of its characters.
SpecialTokens == {"</s>"}
NewTokenVocabulary == {"a", " ", "</s>"}
PromptToken == "q"

\* what generate() may append: at least one token, at most MaxNewTokens
NewIds == UNION { [1..n -> NewTokenVocabulary] : n \in 1..MaxNewTokens }

\* (mutant of SliceFrom: the slice starts one token early)
SliceFrom_one_early(ids, n) == SubSeq(ids, n, Len(ids))

\* generate_ids[inputs["input_ids"].shape[1]:]
SliceFrom(ids, n) == SubSeq(ids, n + 1, Len(ids))

\* tokenizer.decode(ids, skip_special_tokens=True,
\*                  clean_up_tokenization_spaces=False)
RECURSIVE decode(_)
decode(ids) ==
  IF ids = <<>> THEN <<>>
  ELSE (IF Head(ids) \in SpecialTokens THEN <<>> ELSE <<Head(ids)>>)
       \o decode(Tail(ids))

\* str.strip(): leading and trailing whitespace removed
RECURSIVE lstrip(_)
lstrip(s) == IF s # <<>> /\ Head(s) = " " THEN lstrip(Tail(s)) ELSE s

RECURSIVE rstrip(_)
rstrip(s) ==
  IF s # <<>> /\ s[Len(s)] = " " THEN rstrip(SubSeq(s, 1, Len(s) - 1)) ELSE s

strip(s) == rstrip(lstrip(s))

-----------------------------------------------------------------------------
(* The state of a run *)

\* A run about to execute main() with command line argv.  A local variable
\* not yet assigned is "" or <<>>; exit is -1 while the process runs.
NewRun(argv) ==
  [ pc |-> "parse_args",
    argv |-> argv,
    args |-> DefaultNamespace,
    prompt |-> "",
    model_id |-> <<>>,
    device |-> "",
    image |-> <<>>,
    processor |-> <<>>,
    bnb_config |-> <<>>,
    load_call |-> <<>>,
    model |-> <<>>,
    convo |-> <<>>,
    convo_string |-> <<>>,
    inputs |-> <<>>,
    generate_call |-> <<>>,
    new_ids |-> <<>>,
    generate_ids |-> <<>>,
    caption |-> <<>>,
    stdout |-> <<>>,
    stderr |-> <<>>,
    exit |-> -1,
    calls |-> <<>> ]

\* the library's answer to one call: whether it returns or raises (and what
\* it raises), and what it returns where the run depends on it
Quiet == [outcome |-> "ok", cuda |-> FALSE, n_prompt |-> 1, new_ids |-> <<>>]

\* the log of calls: the stage and how it ended: "ok" (it completed),
\* "failed" (it raised an error) or "help" (the parser's exit after --help)
Logged(r, stage, result) ==
  [r EXCEPT !.calls = Append(@, [stage |-> stage, result |-> result])]

\* print(..., file=sys.stderr)
PrintErr(r, kind, text) ==
  [r EXCEPT !.stderr = Append(@, [kind |-> kind, text |-> text])]

\* print(...) on standard output
PrintOut(r, kind, text) ==
  [r EXCEPT !.stdout = Append(@, [kind |-> kind, text |-> text])]

\* sys.exit(status), and the end of the process in general
Exit(r, status) == [r EXCEPT !.pc = "exited", !.exit = status]

\* (mutant of Handled: the except branch exits with status 0)
Handled_status0(r, stage, message) ==
  Exit(PrintErr(Logged(r, stage, "failed"), "error", message), 0)

\* an except branch of main(): the message on standard error, sys.exit(1)
Handled(r, stage, message) ==
  Exit(PrintErr(Logged(r, stage, "failed"), "error", message), 1)

\* an exception no except branch of main() catches leaves main(): the
\* interpreter prints the traceback, which ends at the raising line of
\* main(), on standard error and the process ends with status 1
Uncaught(r, stage) ==
  Exit(PrintErr(Logged(r, stage, "failed"), "traceback", stage), 1)

\* a stage that completed: on to the next statement
Completed(r, stage, next) == [Logged(r, stage, "ok") EXCEPT !.pc = next]

-----------------------------------------------------------------------------
(* main(), statement by statement.  Each operator takes the run r at that   *)
(* statement and the library's answer o and gives the run after it.         *)

\* lines 37-41: the parser is built and parse_args() is called.  --help
\* prints the help on standard output and exits 0; an error prints the
\* usage and the error on standard error and exits 2.
do_parse_args(r, o) ==
  LET p == parse_args(r.argv)
  IN CASE p.status = "help" ->
            Exit(PrintOut(Logged(r, "parse_args", "help"), "help", <<>>), 0)
       [] p.status = "error" ->
            Exit(PrintErr(Logged(r, "parse_args", "failed"), "usage",
                          "usage: joycaption_inference.py: error"), 2)
       [] OTHER ->
            [Completed(r, "parse_args", "lookup_prompt") EXCEPT !.args = p.ns]

\* (mutant of lookup_prompt: the mode is ignored)
lookup_prompt_default(r, o) ==
  [r EXCEPT !.prompt = DEFAULT_PROMPT, !.pc = "import"]

\* line 43: prompt = MODE_PROMPTS.get(args.mode, DEFAULT_PROMPT)
lookup_prompt(r, o) ==
  [r EXCEPT !.prompt = DictGet(MODE_PROMPTS, r.args.mode, DEFAULT_PROMPT),
            !.pc = "import"]

\* lines 45-51: the three imports; only ImportError is caught
import_deps(r, o) ==
  CASE o.outcome = "ImportError" ->
         Handled(r, "import", "Error: Missing dependency")
    [] o.outcome = "raise" -> Uncaught(r, "import")
    [] OTHER -> Completed(r, "import", "probe")

\* line 54: device = "cuda" if torch.cuda.is_available() else "cpu"
select_device(cuda) == IF cuda THEN "cuda" ELSE "cpu"

\* lines 53-56: the model id, the GPU probe and the CPU warning
probe(r, o) ==
  LET r1 == [r EXCEPT !.model_id = MODEL_ID]
      r2 == [r1 EXCEPT !.device = select_device(o.cuda)]
      r3 == IF r2.device = "cpu"
            THEN PrintErr(r2, "warning", "Warning: No GPU. Running on CPU (slow).")
            ELSE r2
  IN IF o.outcome = "raise"
     THEN Uncaught(r1, "probe")
     ELSE Completed(r3, "probe", "open_image")

\* (mutant of open_image: the except branch lacks its sys.exit(1))
open_image_no_exit(r, o) ==
  IF o.outcome = "raise"
  THEN [PrintErr(Logged(r, "open_image", "failed"), "error", "Error opening image")
          EXCEPT !.pc = "load_processor"]
  ELSE [Completed(r, "open_image", "load_processor")
          EXCEPT !.image = <<[path |-> r.args.image[1], mode |-> "RGB"]>>]

\* lines 58-62: image = Image.open(args.image).convert("RGB")
open_image(r, o) ==
  IF o.outcome = "raise"
  THEN Handled(r, "open_image", "Error opening image")
  ELSE [Completed(r, "open_image", "load_processor")
          EXCEPT !.image = <<[path |-> r.args.image[1], mode |-> "RGB"]>>]

\* (mutant of load_processor: the statement is skipped)
load_processor_skipped(r, o) == [r EXCEPT !.pc = "quant_config"]

\* lines 64-68: processor = AutoProcessor.from_pretrained(model_id)
load_processor(r, o) ==
  IF o.outcome = "raise"
  THEN Handled(r, "load_processor", "Error loading processor")
  ELSE [Completed(r, "load_processor", "quant_config")
          EXCEPT !.processor = <<[pretrained |-> r.model_id]>>]

\* (mutant of wants_4bit: the test of the model id is lost)
wants_4bit_flag_only(device, low_vram, model_id) == device = "cuda" /\ low_vram

\* line 72: whether the 4-bit options object is built
wants_4bit(device, low_vram, model_id) ==
  device = "cuda" /\ (low_vram \/ Contains(<<"n", "f", "4">>, model_id))

\* lines 73-77: the options object
BitsAndBytesConfig ==
  [ load_in_4bit |-> TRUE,
    bnb_4bit_compute_dtype |-> "float16",
    bnb_4bit_quant_type |-> "nf4" ]

\* lines 70-77: bnb_config is None (<<>>) or the options object, whose
\* constructor, when called, is outside every try
quant_config(r, o) ==
  IF wants_4bit(r.device, r.args.low_vram, r.model_id)
  THEN IF o.outcome = "raise"
       THEN Uncaught(r, "quant_config")
       ELSE [Completed(r, "quant_config", "load_model")
               EXCEPT !.bnb_config = <<BitsAndBytesConfig>>]
  ELSE [Completed(r, "quant_config", "load_model") EXCEPT !.bnb_config = <<>>]

\* (mutant of from_pretrained_kwargs: the options object is not passed on)
from_pretrained_kwargs_plain(model_id, bnb_config) ==
  [ pretrained |-> model_id, quantization_config |-> <<>>,
    torch_dtype |-> "bfloat16", device_map |-> "auto" ]

\* lines 80-87: the arguments of LlavaForConditionalGeneration.from_pretrained
from_pretrained_kwargs(model_id, bnb_config) ==
  IF bnb_config # <<>>
  THEN [ pretrained |-> model_id, quantization_config |-> bnb_config,
         torch_dtype |-> "", device_map |-> "auto" ]
  ELSE [ pretrained |-> model_id, quantization_config |-> <<>>,
         torch_dtype |-> "bfloat16", device_map |-> "auto" ]

\* lines 79-91: the model is loaded and put in eval mode
load_model(r, o) ==
  LET kw == from_pretrained_kwargs(r.model_id, r.bnb_config)
      r1 == [r EXCEPT !.load_call = <<kw>>]
  IN IF o.outcome = "raise"
     THEN Handled(r1, "load_model", "Error loading model")
     ELSE [Completed(r1, "load_model", "chat_template")
             EXCEPT !.model = <<[kwargs |-> kw, device |-> r.device,
                                 training |-> FALSE]>>]

\* lines 93-96: the conversation
make_convo(prompt) ==
  << [role |-> "system", content |-> "You are a helpful image captioner."],
     [role |-> "user", content |-> prompt] >>

\* lines 93-98: the conversation is rendered by the processor's chat
\* template; the assert of line 98 raises when the result is no string
chat_template(r, o) ==
  LET r1 == [r EXCEPT !.convo = make_convo(r.prompt)]
  IN IF o.outcome \in {"raise", "not_str"}
     THEN Uncaught(r1, "chat_template")
     ELSE [Completed(r1, "chat_template", "preprocess")
             EXCEPT !.convo_string = <<[messages |-> r1.convo, tokenize |-> FALSE,
                                        add_generation_prompt |-> TRUE]>>]

\* line 103: inputs["pixel_values"].to(torch.float16)
cast_pixel_values(pv) == [pv EXCEPT !.dtype = "float16"]

\* lines 100-103: the processor makes the tensors (pixel_values in float32,
\* on the CPU), which are moved to the model's device; pixel_values is cast
preprocess(r, o) ==
  LET made == [dtype |-> "float32", device |-> "cpu"]
      moved == [made EXCEPT !.device = r.model[1].device]
  IN IF o.outcome = "raise"
     THEN Uncaught(r, "preprocess")
     ELSE [Completed(r, "preprocess", "generate")
             EXCEPT !.inputs =
               <<[ text |-> r.convo_string[1], images |-> r.image[1],
                   input_ids |-> [i \in 1..o.n_prompt |-> PromptToken],
                   pixel_values |-> cast_pixel_values(moved) ]>>]

\* (mutant of generate: a failed generation leaves the run waiting)
generate_waits(r, o) ==
  LET r1 == [r EXCEPT !.generate_call = r.inputs]
  IN IF o.outcome = "raise"
     THEN [Logged(r1, "generate", "failed") EXCEPT !.pc = "waiting"]
     ELSE [Completed(r1, "generate", "decode")
             EXCEPT !.new_ids = o.new_ids,
                    !.generate_ids = r.inputs[1].input_ids \o o.new_ids]

\* lines 105-112: generate() returns the prompt's tokens followed by the
\* new ones (sampling: the new tokens are any the library may give)
generate(r, o) ==
  LET r1 == [r EXCEPT !.generate_call = r.inputs]
  IN IF o.outcome = "raise"
     THEN Uncaught(r1, "generate")
     ELSE [Completed(r1, "generate", "decode")
             EXCEPT !.new_ids = o.new_ids,
                    !.generate_ids = r.inputs[1].input_ids \o o.new_ids]

\* lines 114-118: the prompt's tokens are cut off, the rest is decoded and
\* stripped
decode_caption(r, o) ==
  LET ids == SliceFrom(r.generate_ids, Len(r.inputs[1].input_ids))
  IN IF o.outcome = "raise"
     THEN Uncaught(r, "decode")
     ELSE [Completed(r, "decode", "print") EXCEPT !.caption = strip(decode(ids))]

\* line 119, and the return of main(): the caption is printed (print raises
\* before anything is written when the stream cannot encode the text) and
\* the process ends with status 0
print_caption(r, o) ==
  IF o.outcome = "raise"
  THEN Uncaught(r, "print")
  ELSE Exit(PrintOut(Logged(r, "print", "ok"), "caption", r.caption), 0)

\* main(): the statement at r.pc
main(r, o) ==
  CASE r.pc = "parse_args" -> do_parse_args(r, o)
    [] r.pc = "lookup_prompt" -> lookup_prompt(r, o)
    [] r.pc = "import" -> import_deps(r, o)
    [] r.pc = "probe" -> probe(r, o)
    [] r.pc = "open_image" -> open_image(r, o)
    [] r.pc = "load_processor" -> load_processor(r, o)
    [] r.pc = "quant_config" -> quant_config(r, o)
    [] r.pc = "load_model" -> load_model(r, o)
    [] r.pc = "chat_template" -> chat_template(r, o)
    [] r.pc = "preprocess" -> preprocess(r, o)
    [] r.pc = "generate" -> generate(r, o)
    [] r.pc = "decode" -> decode_caption(r, o)
    [] r.pc = "print" -> print_caption(r, o)
    [] OTHER -> r

-----------------------------------------------------------------------------
(* The specification *)

\* the command line of the twin: run's with --low-vram taken out when it is
\* there, added at the end when it is not
ToggleLowVram(argv) ==
  IF \E i \in 1..Len(argv) : argv[i] = "--low-vram"
  THEN SelectSeq(argv, LAMBDA w : w # "--low-vram")
  ELSE Append(argv, "--low-vram")

Init == \E argv \in Argvs : run = NewRun(argv) /\ twin = <<>>

PairInit ==
  \E argv \in Argvs :
    run = NewRun(argv) /\ twin = <<NewRun(ToggleLowVram(argv))>>

\* one statement of main(), with the library's answer o; the twin, when
\* there is one, executes its own next statement with the same answer
Step(o) ==
  /\ run' = main(run, o)
  /\ twin' = [i \in DOMAIN twin |-> main(twin[i], o)]

ParseArgs == run.pc = "parse_args" /\ Step(Quiet)

LookupPrompt == run.pc = "lookup_prompt" /\ Step(Quiet)

ImportDeps ==
  /\ run.pc = "import"
  /\ \E oc \in {"ok", "ImportError", "raise"} : Step([Quiet EXCEPT !.outcome = oc])

Probe ==
  /\ run.pc = "probe"
  /\ \E oc \in {"ok", "raise"}, cuda \in BOOLEAN :
       Step([Quiet EXCEPT !.outcome = oc, !.cuda = cuda])

OpenImage ==
  /\ run.pc = "open_image"
  /\ \E oc \in {"ok", "raise"} : Step([Quiet EXCEPT !.outcome = oc])

LoadProcessor ==
  /\ run.pc = "load_processor"
  /\ \E oc \in {"ok", "raise"} : Step([Quiet EXCEPT !.outcome = oc])

QuantConfig ==
  /\ run.pc = "quant_config"
  /\ \E oc \in {"ok", "raise"} : Step([Quiet EXCEPT !.outcome = oc])

LoadModel ==
  /\ run.pc = "load_model"
  /\ \E oc \in {"ok", "raise"} : Step([Quiet EXCEPT !.outcome = oc])

ChatTemplate ==
  /\ run.pc = "chat_template"
  /\ \E oc \in {"ok", "raise", "not_str"} : Step([Quiet EXCEPT !.outcome = oc])

Preprocess ==
  /\ run.pc = "preprocess"
  /\ \E oc \in {"ok", "raise"}, n \in 1..MaxPromptTokens :
       Step([Quiet EXCEPT !.outcome = oc, !.n_prompt = n])

Generate ==
  /\ run.pc = "generate"
  /\ \E oc \in {"ok", "raise"}, ids \in NewIds :
       Step([Quiet EXCEPT !.outcome = oc, !.new_ids = ids])

Decode ==
  /\ run.pc = "decode"
  /\ \E oc \in {"ok", "raise"} : Step([Quiet EXCEPT !.outcome = oc])

PrintCaption ==
  /\ run.pc = "print"
  /\ \E oc \in {"ok", "raise"} : Step([Quiet EXCEPT !.outcome = oc])

Next ==
  \/ ParseArgs
  \/ LookupPrompt
  \/ ImportDeps
  \/ Probe
  \/ OpenImage
  \/ LoadProcessor
  \/ QuantConfig
  \/ LoadModel
  \/ ChatTemplate
  \/ Preprocess
  \/ Generate
  \/ Decode
  \/ PrintCaption

\* a single run
Spec == Init /\ [][Next]_vars

\* a single run that is scheduled until it ends: the process is the only
\* thread of control and every library call returns or raises
FairSpec == Init /\ [][Next]_vars /\ WF_vars(Next)

\* two runs whose command lines differ only in --low-vram
PairSpec == PairInit /\ [][Next]_vars

-----------------------------------------------------------------------------
(* What the claims speak of *)

\* the four caption modes, as the specification names them
CaptionModes == {"descriptive", "straightforward", "booru", "training"}

\* the mode a command line asks for: the word after its last --mode, and
\* descriptive when it has no --mode
RequestedMode(argv) ==
  LET at == {i \in 1..Len(argv) : argv[i] = "--mode"}
  IN IF at = {} THEN "descriptive"
     ELSE argv[(CHOOSE i \in at : \A j \in at : j <= i) + 1]

\* the run has ended / has printed a caption / was ended by --help
Exited(r) == r.pc = "exited"
Captions(r) == SelectSeq(r.stdout, LAMBDA line : line.kind = "caption")
HelpPrinted(r) == \E i \in 1..Len(r.stdout) : r.stdout[i].kind = "help"

\* the calls of r that failed
FailedCalls(r) == {i \in 1..Len(r.calls) : r.calls[i].result = "failed"}

\* the last line r wrote on standard error
LastErr(r) == r.stderr[Len(r.stderr)]

\* the library stages in the order the specification gives them
LibraryStages ==
  <<"open_image", "load_processor", "load_model", "chat_template",
    "generate", "decode">>

\* the calls of r to the library stages, in the order they were made
LibraryCalls(r) ==
  SelectSeq(r.calls,
            LAMBDA c : \E i \in 1..Len(LibraryStages) : c.stage = LibraryStages[i])

-----------------------------------------------------------------------------
(* C1 *)

\* C1: a run started with --mode m passes to generate() the conversation
\* made of the fixed system message and a user message whose content is
\* exactly MODE_PROMPTS[m]; a run started without --mode passes the prompt
\* of descriptive; the user message is always one of the four templates.
C1_PromptOfMode ==
  /\ run.convo # <<>> =>
       /\ Len(run.convo) = 2
       /\ run.convo[1] =
            [role |-> "system", content |-> "You are a helpful image captioner."]
       /\ run.convo[2].role = "user"
       /\ RequestedMode(run.argv) \in CaptionModes
       /\ run.convo[2].content = MODE_PROMPTS[RequestedMode(run.argv)]
       /\ run.convo[2].content \in {MODE_PROMPTS[m] : m \in CaptionModes}
  /\ run.generate_call # <<>> =>
       run.generate_call[1].text.messages = run.convo

\* a run with --mode booru has called generate()
C1_Witness ==
  /\ run.generate_call # <<>>
  /\ \E i \in 1..Len(run.argv) : run.argv[i] = "--mode"
  /\ RequestedMode(run.argv) = "booru"

-----------------------------------------------------------------------------
(* C2 *)

\* C2: when a stage of a run fails (argument parsing, import, GPU probe,
\* image open, processor load, model load, chat template, preprocessing,
\* generation, decoding), the run has printed an error message (on
\* standard error: the handler's message, the parser's usage error, or the
\* traceback of the uncaught exception) and has ended with a non-zero exit
\* status.
C2_FailureExitsNonZero ==
  FailedCalls(run) # {} =>
    /\ Exited(run)
    /\ run.exit \in {1, 2}
    /\ run.stderr # <<>>
    /\ LastErr(run).kind \in {"error", "usage", "traceback"}

\* generation has failed
C2_Witness ==
  \E i \in FailedCalls(run) : run.calls[i].stage = "generate"

-----------------------------------------------------------------------------
(* C3 *)

\* C3: the library stages are called in the order load image, load
\* processor, load model, build the prompt, generate, decode; a stage is
\* called only when every earlier one has completed, and a run that prints
\* a caption has completed all six.
C3_StageOrder ==
  LET lib == LibraryCalls(run)
  IN /\ Len(lib) <= Len(LibraryStages)
     /\ \A i \in 1..Len(lib) :
          /\ lib[i].stage = LibraryStages[i]
          /\ i < Len(lib) => lib[i].result = "ok"
     /\ Captions(run) # <<>> =>
          /\ Len(lib) = Len(LibraryStages)
          /\ \A i \in 1..Len(lib) : lib[i].result = "ok"

\* a run has printed a caption
C3_Witness == Exited(run) /\ Captions(run) # <<>>

-----------------------------------------------------------------------------
(* C4 *)

\* a --mode followed by a word that is no option and none of the four modes
BadModeAt(argv) ==
  {i \in 1..(Len(argv) - 1) :
     /\ argv[i] = "--mode"
     /\ argv[i + 1] \notin OptionStrings
     /\ argv[i + 1] \notin CaptionModes}

\* the run was ended by argument parsing: nothing was imported or loaded
EndedByParser(r) ==
  /\ Exited(r)
  /\ Len(r.calls) = 1
  /\ r.calls[1].stage = "parse_args"
  /\ r.prompt = "" /\ r.image = <<>> /\ r.processor = <<>> /\ r.model = <<>>

\* the values --mode accepts are exactly the four modes
ModeChoicesExact ==
  \A w \in Words \ OptionStrings :
    parse_args(<<"--image", "a.png", "--mode", w>>).status = "ok"
      <=> w \in CaptionModes

-----------------------------------------------------------------------------
(* C5 *)

\* the 4-bit (nf4) options object
Nf4Options(cfg) ==
  /\ cfg # <<>>
  /\ cfg[1].load_in_4bit
  /\ cfg[1].bnb_4bit_quant_type = "nf4"

\* C5 as stated: every run that reaches the model load loads the model
\* with the 4-bit (nf4) options object, whatever the device and the flag.
C5_AsStated ==
  run.load_call # <<>> => Nf4Options(run.load_call[1].quantization_config)

\* C5, amended: a run that reaches the model load with a GPU detected
\* (device "cuda") loads the model with the 4-bit (nf4) options object,
\* whatever the --low-vram flag; a run with no GPU detected loads it with
\* no options object and torch_dtype bfloat16, whatever the flag.
C5_QuantizedOnCuda ==
  run.load_call # <<>> =>
    LET kw == run.load_call[1]
    IN /\ run.device \in {"cuda", "cpu"}
       /\ run.device = "cuda" =>
            /\ Nf4Options(kw.quantization_config)
            /\ kw.quantization_config[1].bnb_4bit_compute_dtype = "float16"
            /\ kw.torch_dtype = ""
       /\ run.device = "cpu" =>
            /\ kw.quantization_config = <<>>
            /\ kw.torch_dtype = "bfloat16"
       /\ kw.pretrained = MODEL_ID
       /\ kw.device_map = "auto"

\* a run on a GPU without --low-vram has called the model load
C5_Witness ==
  /\ run.load_call # <<>>
  /\ run.device = "cuda"
  /\ ~run.args.low_vram

-----------------------------------------------------------------------------
(* C6 *)

\* the caption r printed is the decoding of the tokens generate() appended
\* to the prompt, and of nothing else
CaptionOfNewTokens(r) ==
  LET text == Captions(r)[1].text
  IN /\ text = strip(decode(r.new_ids))
     /\ \A i \in 1..Len(text) :
          text[i] \in NewTokenVocabulary \ SpecialTokens
     /\ text # <<>> => text[1] # " " /\ text[Len(text)] # " "

\* C6 as stated: a run prints a caption at most once, and prints one if and
\* only if it ends with exit status 0; a run that exits non-zero has
\* printed nothing on standard output.
C6_AsStated ==
  /\ Len(Captions(run)) <= 1
  /\ Exited(run) =>
       /\ run.exit = 0 <=> Len(Captions(run)) = 1
       /\ run.exit # 0 => run.stdout = <<>> /\ run.stderr # <<>>
       /\ run.exit = 0 => CaptionOfNewTokens(run)

\* C6, amended: a run prints a caption at most once, and prints one if and
\* only if it ends with exit status 0 without having been ended by --help
\* (which prints the help text and no caption on standard output and exits
\* 0); a run that exits non-zero has printed nothing on standard output
\* (its messages are on standard error); a run that ends with status 0
\* and was not ended by --help has printed exactly one caption, the
\* decoding of the tokens generated after the input prompt.
C6_CaptionIffSuccess ==
  /\ Len(Captions(run)) <= 1
  /\ ~Exited(run) => run.stdout = <<>>
  /\ Exited(run) =>
       /\ Len(Captions(run)) = 1 <=> (run.exit = 0 /\ ~HelpPrinted(run))
       /\ run.exit # 0 => run.stdout = <<>> /\ run.stderr # <<>>
       /\ HelpPrinted(run) =>
            /\ run.exit = 0
            /\ Len(run.stdout) = 1
            /\ \E i \in 1..Len(run.argv) : run.argv[i] = "--help"
       /\ Len(Captions(run)) = 1 =>
            /\ Len(run.stdout) = 1
            /\ CaptionOfNewTokens(run)

\* a run has ended with status 0 and a caption that is not empty, made
\* from tokens among which one was special and one a blank
C6_Witness ==
  /\ Exited(run) /\ run.exit = 0
  /\ Len(Captions(run)) = 1
  /\ Captions(run)[1].text # <<>>
  /\ Len(run.new_ids) > Len(Captions(run)[1].text)

-----------------------------------------------------------------------------
(* C7 *)

\* the stage an error message names: a handler's message names its stage,
\* the parser's usage error the parsing, a traceback the raising statement
StageNamedBy(line) ==
  CASE line.kind = "usage" -> "parse_args"
    [] line.kind = "traceback" -> line.text
    [] line.text = "Error: Missing dependency" -> "import"
    [] line.text = "Error opening image" -> "open_image"
    [] line.text = "Error loading processor" -> "load_processor"
    [] line.text = "Error loading model" -> "load_model"
    [] OTHER -> "none"

\* C7: no stage is attempted twice in a run; after the first stage that
\* fails no later stage is attempted; a failed image open means that
\* neither the processor nor the model is ever loaded; the error message
\* names the first failing stage.
C7_NoRetry ==
  /\ \A i, j \in 1..Len(run.calls) :
       i # j => run.calls[i].stage # run.calls[j].stage
  /\ \A i \in FailedCalls(run) :
       /\ i = Len(run.calls)
       /\ Exited(run)
       /\ run.stderr # <<>>
       /\ StageNamedBy(LastErr(run)) = run.calls[i].stage
       /\ run.calls[i].stage = "open_image" =>
            /\ run.processor = <<>>
            /\ run.load_call = <<>>
            /\ run.model = <<>>
            /\ LastErr(run).text = "Error opening image"

\* the image open has failed
C7_Witness ==
  \E i \in FailedCalls(run) : run.calls[i].stage = "open_image"

-----------------------------------------------------------------------------
(* C8 *)

\* the ways a run can have ended
EndedWithCaption(r) ==
  r.exit = 0 /\ Len(Captions(r)) = 1 /\ ~HelpPrinted(r)
EndedWithError(r) ==
  r.exit \notin {-1, 0} /\ r.stdout = <<>> /\ FailedCalls(r) # {}
EndedWithHelp(r) ==
  r.exit = 0 /\ Captions(r) = <<>> /\ HelpPrinted(r)

\* C8 as stated: every run ends, and ends either with the caption printed
\* and exit status 0 or with an error and a non-zero exit status.
C8_AsStated ==
  /\ <>Exited(run)
  /\ [](Exited(run) => (EndedWithCaption(run) \/ EndedWithError(run)))

\* C8, amended: every run ends, in exactly one of three final states: the
\* caption printed with exit status 0, an error exit with a non-zero
\* status, or (a command line with --help) the help printed with exit
\* status 0; an ended run takes no further step and a run that has not
\* ended can always take one.
C8_Terminates ==
  /\ <>Exited(run)
  /\ [](Exited(run) =>
          /\ EndedWithCaption(run) \/ EndedWithError(run) \/ EndedWithHelp(run)
          /\ ~(EndedWithCaption(run) /\ EndedWithError(run))
          /\ ~(EndedWithCaption(run) /\ EndedWithHelp(run))
          /\ ~(EndedWithError(run) /\ EndedWithHelp(run)))
  /\ [](Exited(run) <=> ~ENABLED Next)
  /\ [][Exited(run) => Exited(run')]_vars

\* a run has ended with its caption printed
C8_Witness == Exited(run) /\ EndedWithCaption(run)

-----------------------------------------------------------------------------
(* C9 *)

\* a run without what tells the two runs apart: the command line and the flag
WithoutFlag(r) == [r EXCEPT !.argv = <<>>, !.args.low_vram = FALSE]

\* the run's command line was accepted by the parser
Parsed(r) == r.calls # <<>> /\ r.calls[1] = [stage |-> "parse_args", result |-> "ok"]

\* C9: of two runs whose command lines differ only in --low-vram (same
\* image, same mode) and that get the same answers from the libraries,
\* both make the same quantization decision, issue the same model-load
\* call and are at every step, and at the end, in the same state.
C9_LowVramNoEffect ==
  (Len(twin) = 1 /\ Parsed(run)) =>
    /\ Parsed(twin[1])
    /\ run.args.low_vram # twin[1].args.low_vram
    /\ run.args.image = twin[1].args.image
    /\ run.args.mode = twin[1].args.mode
    /\ run.bnb_config = twin[1].bnb_config
    /\ run.load_call = twin[1].load_call
    /\ run.exit = twin[1].exit
    /\ WithoutFlag(run) = WithoutFlag(twin[1])

\* two runs on a GPU, one with the flag and one without, have both loaded
\* the model
C9_Witness ==
  /\ Len(twin) = 1
  /\ run.device = "cuda"
  /\ run.args.low_vram /\ ~twin[1].args.low_vram
  /\ run.model # <<>> /\ twin[1].model # <<>>

-----------------------------------------------------------------------------
(* C10 *)

\* the floating-point type a loaded model computes in: the compute type of
\* the options object on the quantized path, torch_dtype on the other
ComputeDtype(m) ==
  IF m.kwargs.quantization_config # <<>>
  THEN m.kwargs.quantization_config[1].bnb_4bit_compute_dtype
  ELSE m.kwargs.torch_dtype

\* C10: in every run that reaches generation, the floating-point type of
\* the pixel_values passed to generate() is the type the model was loaded
\* to compute in, with and without a GPU.
C10_PixelDtypeMatchesModel ==
  run.generate_call # <<>> =>
    run.generate_call[1].pixel_values.dtype = ComputeDtype(run.model[1])

====
